---- MODULE Spec2Model ----
\* RAMKAR MFS v2.6 dashboard (src/app.py): the decision engine of one script run
\* (validation, gates, factor scores, weighted total, hysteresis regime, budget)
\* and the session state, widgets and buttons that drive it.
\*
\* Units.  The source works on floats; the model works on exact integers:
\*   weekly changes (usdtry, sp500, xu100, xbank)  hundredths of a percent
\*                                                  (0.05 as a fraction = 500)
\*   cds_level, cds_wdelta                          basis points
\*   vix_last                                       tenths of a point
\*   volume_ratio                                   hundredths
\*   soft_reduction                                 hundredths (0.25 = 25)
\*   base_risk, adj_risk                            tenths of R (2.5 = 25)
\* Every threshold of the source is a value of that grid, and x/100 of a grid
\* value compares with the threshold literal as the exact values do (IEEE
\* division is correctly rounded), so the comparisons are those of the source.
EXTENDS Integers, Sequences, FiniteSets, TLC

\* ------------------------------------------------------------------ CONFIG

TH ==
  [K1_USDTRY_SHOCK |-> 500, K2_CDS_SPIKE |-> 100, K2_CDS_LEVEL |-> 700,
   K3_VIX |-> 350, K3_SP500 |-> -300, K4_XBANK_DROP |-> -500,
   K4_XU100_STABLE |-> -100, K5_VOLUME_RATIO |-> 50]

\* A slip: NEUTRAL leaves for ON below the score at which ON leaves for
\* NEUTRAL.
HYSTERESIS_crossed ==
  [ON_TO_NEUTRAL |-> 57, NEUTRAL_TO_ON |-> 55, NEUTRAL_TO_OFF |-> 37,
   OFF_TO_NEUTRAL |-> 43, CONFIRM_WEEKS |-> 2]

HYSTERESIS ==
  [ON_TO_NEUTRAL |-> 57, NEUTRAL_TO_ON |-> 63, NEUTRAL_TO_OFF |-> 37,
   OFF_TO_NEUTRAL |-> 43, CONFIRM_WEEKS |-> 2]

DATA_LIMITS ==
  [USDTRY_MAX_WEEKLY |-> 1000, USDTRY_WARN_WEEKLY |-> 500,
   CDS_MAX_WEEKLY |-> 150, CDS_WARN_WEEKLY |-> 75, CDS_MIN |-> 50,
   CDS_MAX |-> 1500, VIX_MIN |-> 80, VIX_MAX |-> 600]

BUDGET_REDUCTIONS == [K4 |-> 25, K5 |-> 15]

\* W in hundredths.
W == [doviz |-> 30, cds |-> 25, global |-> 25, faiz |-> 15, likidite |-> 5]

\* (max positions, max risk in tenths of R, entry stance)
BASE_BUDGETS ==
  [r \in {"ON", "NEUTRAL", "OFF", "OFF-KILL"} |->
     CASE r = "ON"       -> [pos |-> 12, risk |-> 25, entry |-> "NORMAL"]
       [] r = "NEUTRAL"  -> [pos |-> 7,  risk |-> 15, entry |-> "SECICI"]
       [] r = "OFF"      -> [pos |-> 4,  risk |-> 10, entry |-> "SINIRLI"]
       [] r = "OFF-KILL" -> [pos |-> 2,  risk |-> 5,  entry |-> "YASAK"]]

Regimes == {"ON", "NEUTRAL", "OFF", "OFF-KILL"}

\* Python's None, as session_state.previous_regime starts and as the script
\* passes an empty selection to get_regime_with_hysteresis.
None == "None"

\* ----------------------------------------------------------------- HELPERS

Abs(x) == IF x < 0 THEN -x ELSE x

Max(a, b) == IF a >= b THEN a ELSE b

Min(a, b) == IF a <= b THEN a ELSE b

clamp(x, lo, hi) == Max(lo, Min(hi, x))

\* Python's round() on n/d (d > 0, n >= 0): to the nearest, a tie to the even
\* one.  The float sums and products the source rounds are, for the values
\* the source can feed them, on the same side of every tie as the exact ones.
RoundHalfEven(n, d) ==
  LET q == n \div d
      r == n % d
  IN  IF 2 * r > d \/ (2 * r = d /\ q % 2 = 1) THEN q + 1 ELSE q

\* math.floor of n/d (d > 0).
Floor(n, d) == n \div d

\* --------------------------------------------------------- VERI DOGRULAMA

\* A slip: a warning invalidates the result as an error does.
GradeWarningsInvalidate(errors, warnings) ==
  [is_valid   |-> (errors = <<>>) /\ (warnings = <<>>),
   confidence |-> IF errors # <<>> THEN "LOW"
                  ELSE IF warnings # <<>> THEN "MEDIUM"
                  ELSE "HIGH"]

\* Lines 164-176.
Grade(errors, warnings) ==
  IF errors # <<>> THEN [is_valid |-> FALSE, confidence |-> "LOW"]
  ELSE IF Len(warnings) >= 2 THEN [is_valid |-> TRUE, confidence |-> "MEDIUM"]
  ELSE IF warnings # <<>> THEN [is_valid |-> TRUE, confidence |-> "MEDIUM"]
  ELSE [is_valid |-> TRUE, confidence |-> "HIGH"]

validate_data(usdtry_wchg, cds_level, cds_wdelta, vix_last, sp500_wchg) ==
  LET e1 == IF Abs(usdtry_wchg) > DATA_LIMITS.USDTRY_MAX_WEEKLY
              THEN <<"USDTRY_MAX">> ELSE <<>>
      w1 == IF Abs(usdtry_wchg) <= DATA_LIMITS.USDTRY_MAX_WEEKLY
               /\ Abs(usdtry_wchg) > DATA_LIMITS.USDTRY_WARN_WEEKLY
              THEN <<"USDTRY_WARN">> ELSE <<>>
      e2 == IF cds_level < DATA_LIMITS.CDS_MIN THEN <<"CDS_LOW">>
            ELSE IF cds_level > DATA_LIMITS.CDS_MAX THEN <<"CDS_HIGH">>
            ELSE <<>>
      e3 == IF Abs(cds_wdelta) > DATA_LIMITS.CDS_MAX_WEEKLY
              THEN <<"CDS_DELTA_MAX">> ELSE <<>>
      w3 == IF Abs(cds_wdelta) <= DATA_LIMITS.CDS_MAX_WEEKLY
               /\ Abs(cds_wdelta) > DATA_LIMITS.CDS_WARN_WEEKLY
              THEN <<"CDS_DELTA_WARN">> ELSE <<>>
      e4 == IF vix_last < DATA_LIMITS.VIX_MIN THEN <<"VIX_LOW">>
            ELSE IF vix_last > DATA_LIMITS.VIX_MAX THEN <<"VIX_HIGH">>
            ELSE <<>>
      w5 == IF cds_wdelta < -30 /\ usdtry_wchg > 300
              THEN <<"CDS_DOWN_TL_WEAK">> ELSE <<>>
      w6 == IF cds_wdelta > 50 /\ usdtry_wchg < -200
              THEN <<"CDS_UP_TL_STRONG">> ELSE <<>>
      w7 == IF vix_last > 300 /\ sp500_wchg > 200
              THEN <<"VIX_HIGH_SP_UP">> ELSE <<>>
      errors   == e1 \o e2 \o e3 \o e4
      warnings == w1 \o w3 \o w5 \o w6 \o w7
      grade    == Grade(errors, warnings)
  IN  [is_valid   |-> grade.is_valid,
       confidence |-> grade.confidence,
       errors     |-> errors,
       warnings   |-> warnings]

\* -------------------------------------------------------------- HISTEREZIS

\* A slip: the immediate thresholds are open (score > 60, score > 40).
ImmediateRegimeOpen(current_score) ==
  IF current_score > 60 THEN "ON"
  ELSE IF current_score > 40 THEN "NEUTRAL"
  ELSE "OFF"

\* Lines 195-200 and 230-235: the regime of a score with no hysteresis.
\* A slip: the immediate rule gives ON from 55 up.
ImmediateRegimeEarlyOn(current_score) ==
  IF current_score >= 55 THEN "ON"
  ELSE IF current_score >= 40 THEN "NEUTRAL"
  ELSE "OFF"

ImmediateRegime(current_score) ==
  IF current_score >= 60 THEN "ON"
  ELSE IF current_score >= 40 THEN "NEUTRAL"
  ELSE "OFF"

\* A slip: a score past the far threshold targets the far regime at once.
TargetRegimeSkips(current_score, previous_regime) ==
  IF previous_regime = "ON"
    THEN IF current_score < HYSTERESIS.NEUTRAL_TO_OFF THEN "OFF"
         ELSE IF current_score < HYSTERESIS.ON_TO_NEUTRAL THEN "NEUTRAL"
         ELSE None
  ELSE IF previous_regime = "NEUTRAL"
    THEN IF current_score > HYSTERESIS.NEUTRAL_TO_ON THEN "ON"
         ELSE IF current_score < HYSTERESIS.NEUTRAL_TO_OFF THEN "OFF"
         ELSE None
  ELSE IF previous_regime = "OFF"
    THEN IF current_score > HYSTERESIS.NEUTRAL_TO_ON THEN "ON"
         ELSE IF current_score > HYSTERESIS.OFF_TO_NEUTRAL THEN "NEUTRAL"
         ELSE None
  ELSE None

\* A slip: ON starts to leave at score <= 57.
TargetRegimeClosedOn(current_score, previous_regime) ==
  IF previous_regime = "ON"
    THEN IF current_score <= HYSTERESIS.ON_TO_NEUTRAL THEN "NEUTRAL" ELSE None
  ELSE IF previous_regime = "NEUTRAL"
    THEN IF current_score > HYSTERESIS.NEUTRAL_TO_ON THEN "ON"
         ELSE IF current_score < HYSTERESIS.NEUTRAL_TO_OFF THEN "OFF"
         ELSE None
  ELSE IF previous_regime = "OFF"
    THEN IF current_score > HYSTERESIS.OFF_TO_NEUTRAL THEN "NEUTRAL" ELSE None
  ELSE None

\* Lines 202-227: target_regime of ON, NEUTRAL and OFF; None where the
\* source returns "stays" (and for any other previous regime).
TargetRegime(current_score, previous_regime) ==
  IF previous_regime = "ON"
    THEN IF current_score < HYSTERESIS.ON_TO_NEUTRAL THEN "NEUTRAL" ELSE None
  ELSE IF previous_regime = "NEUTRAL"
    THEN IF current_score > HYSTERESIS.NEUTRAL_TO_ON THEN "ON"
         ELSE IF current_score < HYSTERESIS.NEUTRAL_TO_OFF THEN "OFF"
         ELSE None
  ELSE IF previous_regime = "OFF"
    THEN IF current_score > HYSTERESIS.OFF_TO_NEUTRAL THEN "NEUTRAL" ELSE None
  ELSE None

\* A slip: the committed move carries the week count along.
ConfirmCarriesWeeks(target_regime, previous_regime, weeks_in_transition) ==
  LET new_weeks == weeks_in_transition + 1
  IN  IF new_weeks >= HYSTERESIS.CONFIRM_WEEKS
        THEN [regime |-> target_regime, new_weeks |-> new_weeks]
        ELSE [regime |-> previous_regime, new_weeks |-> new_weeks]

\* A slip: the move commits one week late (new_weeks > CONFIRM_WEEKS).
ConfirmLate(target_regime, previous_regime, weeks_in_transition) ==
  LET new_weeks == weeks_in_transition + 1
  IN  IF new_weeks > HYSTERESIS.CONFIRM_WEEKS
        THEN [regime |-> target_regime, new_weeks |-> 0]
        ELSE [regime |-> previous_regime, new_weeks |-> new_weeks]

\* Lines 239-245.
Confirm(target_regime, previous_regime, weeks_in_transition) ==
  LET new_weeks == weeks_in_transition + 1
  IN  IF new_weeks >= HYSTERESIS.CONFIRM_WEEKS
        THEN [regime |-> target_regime, new_weeks |-> 0]
        ELSE [regime |-> previous_regime, new_weeks |-> new_weeks]

\* A slip: a regime that stays keeps the pending weeks it was given.
StaysKeepsPending(previous_regime, weeks_in_transition) ==
  [regime |-> previous_regime, new_weeks |-> weeks_in_transition]

\* Lines 210, 220, 227: "rejiminde kaliniyor".
Stays(previous_regime, weeks_in_transition) ==
  [regime |-> previous_regime, new_weeks |-> 0]

\* A slip: the first-evaluation rule is tried before the kill.
get_regime_first_rule_before_kill(current_score, previous_regime, weeks_in_transition, hard_kill) ==
  IF previous_regime = None \/ previous_regime = ""
    THEN [regime |-> ImmediateRegime(current_score), new_weeks |-> 0]
  ELSE IF hard_kill THEN [regime |-> "OFF-KILL", new_weeks |-> 0]
  ELSE IF previous_regime = "OFF-KILL"
    THEN [regime |-> ImmediateRegime(current_score), new_weeks |-> 0]
  ELSE IF previous_regime \in {"ON", "NEUTRAL", "OFF"}
    THEN IF TargetRegime(current_score, previous_regime) = None
           THEN Stays(previous_regime, weeks_in_transition)
           ELSE Confirm(TargetRegime(current_score, previous_regime),
                        previous_regime, weeks_in_transition)
  ELSE [regime |-> previous_regime, new_weeks |-> 0]

\* Lines 184-247.  Returns (regime, new_weeks); the note, a text for
\* display, is left out.
get_regime_with_hysteresis(current_score, previous_regime, weeks_in_transition, hard_kill) ==
  IF hard_kill THEN [regime |-> "OFF-KILL", new_weeks |-> 0]
  ELSE IF previous_regime = None \/ previous_regime = ""
    THEN [regime |-> ImmediateRegime(current_score), new_weeks |-> 0]
  ELSE IF previous_regime = "OFF-KILL"
    THEN [regime |-> ImmediateRegime(current_score), new_weeks |-> 0]
  ELSE IF previous_regime \in {"ON", "NEUTRAL", "OFF"}
    THEN IF TargetRegime(current_score, previous_regime) = None
           THEN Stays(previous_regime, weeks_in_transition)
           ELSE Confirm(TargetRegime(current_score, previous_regime),
                        previous_regime, weeks_in_transition)
  ELSE [regime |-> previous_regime, new_weeks |-> 0]

\* ------------------------------------------------------------ FACTOR SCORES

\* A slip: the bands are applied to the signed change.
score_doviz_signed(usdtry_wchg) ==
  LET c == usdtry_wchg
  IN  IF c < 50 THEN 100
      ELSE IF c < 150 THEN 70
      ELSE IF c < 300 THEN 40
      ELSE IF c < 500 THEN 10
      ELSE 0

\* A slip: each threshold belongs to the higher-scoring band.
score_doviz_closed(usdtry_wchg) ==
  LET c == Abs(usdtry_wchg)
  IN  IF c <= 50 THEN 100
      ELSE IF c <= 150 THEN 70
      ELSE IF c <= 300 THEN 40
      ELSE IF c <= 500 THEN 10
      ELSE 0

score_doviz(usdtry_wchg) ==
  LET c == Abs(usdtry_wchg)
  IN  IF c < 50 THEN 100
      ELSE IF c < 150 THEN 70
      ELSE IF c < 300 THEN 40
      ELSE IF c < 500 THEN 10
      ELSE 0

\* A slip: the spike penalty is subtracted without the floor at 0.
score_cds_no_floor(cds_level, cds_wdelta) ==
  LET base == IF cds_level < 300 THEN 100
              ELSE IF cds_level < 400 THEN 70
              ELSE IF cds_level < 500 THEN 50
              ELSE IF cds_level < 600 THEN 30
              ELSE IF cds_level < 700 THEN 10
              ELSE 0
  IN  IF cds_wdelta > 50 THEN base - 20 ELSE base

score_cds(cds_level, cds_wdelta) ==
  LET base == IF cds_level < 300 THEN 100
              ELSE IF cds_level < 400 THEN 70
              ELSE IF cds_level < 500 THEN 50
              ELSE IF cds_level < 600 THEN 30
              ELSE IF cds_level < 700 THEN 10
              ELSE 0
  IN  IF cds_wdelta > 50 THEN Max(0, base - 20) ELSE base

score_global(vix_last, sp500_wchg) ==
  LET base == IF vix_last < 200 THEN 100
              ELSE IF vix_last < 250 THEN 80
              ELSE IF vix_last < 300 THEN 60
              ELSE IF vix_last < 350 THEN 40
              ELSE 20
  IN  IF sp500_wchg < -200 THEN Max(0, base - 20)
      ELSE IF sp500_wchg < -100 THEN Max(0, base - 10)
      ELSE base

score_likidite(volume_ratio) ==
  IF volume_ratio >= 120 THEN 100
  ELSE IF volume_ratio >= 80 THEN 70
  ELSE IF volume_ratio >= 50 THEN 40
  ELSE 10

\* ------------------------------------------------------------ CALCULATIONS

\* A slip: K1 looks at the size of the currency move, not at its direction.
ChecksK1Abs(obs) ==
  [K1 |-> Abs(obs.usdtry_wchg) < TH.K1_USDTRY_SHOCK,
   K2 |-> (obs.cds_level < TH.K2_CDS_LEVEL)
            /\ (obs.cds_wdelta < TH.K2_CDS_SPIKE),
   K3 |-> ~((obs.vix_last > TH.K3_VIX) /\ (obs.sp500_wchg <= TH.K3_SP500)),
   K4 |-> ~((obs.xbank_wchg <= TH.K4_XBANK_DROP)
            /\ (obs.xu100_wchg > TH.K4_XU100_STABLE)),
   K5 |-> obs.volume_ratio >= TH.K5_VOLUME_RATIO]

\* A slip: K5 passes only above the volume threshold.
ChecksK5Open(obs) ==
  [K1 |-> obs.usdtry_wchg < TH.K1_USDTRY_SHOCK,
   K2 |-> (obs.cds_level < TH.K2_CDS_LEVEL)
            /\ (obs.cds_wdelta < TH.K2_CDS_SPIKE),
   K3 |-> ~((obs.vix_last > TH.K3_VIX) /\ (obs.sp500_wchg <= TH.K3_SP500)),
   K4 |-> ~((obs.xbank_wchg <= TH.K4_XBANK_DROP)
            /\ (obs.xu100_wchg > TH.K4_XU100_STABLE)),
   K5 |-> obs.volume_ratio > TH.K5_VOLUME_RATIO]

\* The gates of lines 401-405.
Checks(obs) ==
  [K1 |-> obs.usdtry_wchg < TH.K1_USDTRY_SHOCK,
   K2 |-> (obs.cds_level < TH.K2_CDS_LEVEL)
            /\ (obs.cds_wdelta < TH.K2_CDS_SPIKE),
   K3 |-> ~((obs.vix_last > TH.K3_VIX) /\ (obs.sp500_wchg <= TH.K3_SP500)),
   K4 |-> ~((obs.xbank_wchg <= TH.K4_XBANK_DROP)
            /\ (obs.xu100_wchg > TH.K4_XU100_STABLE)),
   K5 |-> obs.volume_ratio >= TH.K5_VOLUME_RATIO]

\* A slip: the manual override is not consulted.
HardKillGatesOnly(checks, manual_override_active) ==
  (~checks.K1) \/ (~checks.K2) \/ (~checks.K3)

\* A slip: the soft gate K4 kills as the hard gates do.
HardKillWithK4(checks, manual_override_active) ==
  IF manual_override_active THEN TRUE
  ELSE (~checks.K1) \/ (~checks.K2) \/ (~checks.K3) \/ (~checks.K4)

\* Lines 408-412.
HardKill(checks, manual_override_active) ==
  IF manual_override_active THEN TRUE
  ELSE (~checks.K1) \/ (~checks.K2) \/ (~checks.K3)

\* Lines 414-422, in hundredths.
SoftReduction(checks) ==
  clamp((IF ~checks.K4 THEN BUDGET_REDUCTIONS.K4 ELSE 0)
          + (IF ~checks.K5 THEN BUDGET_REDUCTIONS.K5 ELSE 0), 0, 50)

SoftReasons(checks) ==
  (IF ~checks.K4 THEN <<"K4">> ELSE <<>>)
    \o (IF ~checks.K5 THEN <<"K5">> ELSE <<>>)

Scores(obs) ==
  [doviz    |-> score_doviz(obs.usdtry_wchg),
   cds      |-> score_cds(obs.cds_level, obs.cds_wdelta),
   global   |-> score_global(obs.vix_last, obs.sp500_wchg),
   faiz     |-> obs.faiz_score,
   likidite |-> score_likidite(obs.volume_ratio)]

\* A slip: the five sub-scores are averaged with equal weights.
TotalEqualWeights(scores) ==
  RoundHalfEven((scores.doviz + scores.cds + scores.global + scores.faiz
                   + scores.likidite) * 20, 100)

\* A slip: int() without round().
TotalTruncated(scores) ==
  Floor(scores.doviz * W.doviz + scores.cds * W.cds
          + scores.global * W.global + scores.faiz * W.faiz
          + scores.likidite * W.likidite, 100)

\* Lines 437-443: int(round(sum of score * weight)).
Total(scores) ==
  RoundHalfEven(scores.doviz * W.doviz + scores.cds * W.cds
                  + scores.global * W.global + scores.faiz * W.faiz
                  + scores.likidite * W.likidite, 100)

\* A slip: the base budget is returned whatever the soft vetoes.
AdjustedBudgetNoReduction(regime, soft_reduction) ==
  LET base == BASE_BUDGETS[regime]
  IN  [pos |-> base.pos, risk |-> base.risk, entry |-> base.entry]

\* A slip: the floor of 2 positions is left out.
AdjustedBudgetNoFloor(regime, soft_reduction) ==
  LET base == BASE_BUDGETS[regime]
  IN  IF soft_reduction > 0
        THEN [pos   |-> Floor(base.pos * (100 - soft_reduction), 100),
              risk  |-> RoundHalfEven(base.risk * (100 - soft_reduction), 100),
              entry |-> IF soft_reduction >= 30 THEN "DIKKATLI"
                        ELSE base.entry]
        ELSE [pos |-> base.pos, risk |-> base.risk, entry |-> base.entry]

\* Lines 456-462.
AdjustedBudget(regime, soft_reduction) ==
  LET base == BASE_BUDGETS[regime]
  IN  IF soft_reduction > 0
        THEN [pos   |-> Max(2, Floor(base.pos * (100 - soft_reduction), 100)),
              risk  |-> RoundHalfEven(base.risk * (100 - soft_reduction), 100),
              entry |-> IF soft_reduction >= 30 THEN "DIKKATLI"
                        ELSE base.entry]
        ELSE [pos |-> base.pos, risk |-> base.risk, entry |-> base.entry]

\* A slip: a validation error is treated as a hard kill.
CalculationsKillOnError(obs, previous_regime_input, weeks_pending, manual_override_active) ==
  LET validation == validate_data(obs.usdtry_wchg, obs.cds_level,
                                  obs.cds_wdelta, obs.vix_last, obs.sp500_wchg)
      checks     == Checks(obs)
      hard_kill  == HardKill(checks, manual_override_active)
                      \/ ~validation.is_valid
      soft_reduction == SoftReduction(checks)
      scores     == Scores(obs)
      total      == Total(scores)
      r == get_regime_with_hysteresis(
             total,
             IF previous_regime_input # "" THEN previous_regime_input ELSE None,
             weeks_pending, hard_kill)
      adj == AdjustedBudget(r.regime, soft_reduction)
  IN  [ran |-> TRUE,
       obs |-> obs,
       previous_regime_input |-> previous_regime_input,
       weeks_pending |-> weeks_pending,
       override |-> manual_override_active,
       validation |-> validation,
       checks |-> checks,
       hard_kill |-> hard_kill,
       soft_reduction |-> soft_reduction,
       soft_reasons |-> SoftReasons(checks),
       scores |-> scores,
       total |-> total,
       regime |-> r.regime,
       new_weeks |-> r.new_weeks,
       base_pos |-> BASE_BUDGETS[r.regime].pos,
       base_risk |-> BASE_BUDGETS[r.regime].risk,
       adj_pos |-> adj.pos,
       adj_risk |-> adj.risk,
       adj_entry |-> adj.entry]

\* Lines 399-462: everything one script run computes from the widget values
\* and the override flag.
Calculations(obs, previous_regime_input, weeks_pending, manual_override_active) ==
  LET validation == validate_data(obs.usdtry_wchg, obs.cds_level,
                                  obs.cds_wdelta, obs.vix_last, obs.sp500_wchg)
      checks     == Checks(obs)
      hard_kill  == HardKill(checks, manual_override_active)
      soft_reduction == SoftReduction(checks)
      scores     == Scores(obs)
      total      == Total(scores)
      r == get_regime_with_hysteresis(
             total,
             IF previous_regime_input # "" THEN previous_regime_input ELSE None,
             weeks_pending, hard_kill)
      adj == AdjustedBudget(r.regime, soft_reduction)
  IN  [ran |-> TRUE,
       obs |-> obs,
       previous_regime_input |-> previous_regime_input,
       weeks_pending |-> weeks_pending,
       override |-> manual_override_active,
       validation |-> validation,
       checks |-> checks,
       hard_kill |-> hard_kill,
       soft_reduction |-> soft_reduction,
       soft_reasons |-> SoftReasons(checks),
       scores |-> scores,
       total |-> total,
       regime |-> r.regime,
       new_weeks |-> r.new_weeks,
       base_pos |-> BASE_BUDGETS[r.regime].pos,
       base_risk |-> BASE_BUDGETS[r.regime].risk,
       adj_pos |-> adj.pos,
       adj_risk |-> adj.risk,
       adj_entry |-> adj.entry]

\* ------------------------------------------------------------------- STATE

VARIABLES
  session_state,  \* st.session_state: previous_regime, weeks_in_transition,
                  \* last_score, show_emergency_panel, manual_override_active
  widgets,        \* the values the sidebar and panel widgets hold
  dec,            \* the module-level values of the latest script run
  call,           \* get_regime_with_hysteresis called on its own (SpecRegime)
  hist            \* history of the threaded calls, kept to state properties

vars == <<session_state, widgets, dec, call, hist>>

\* The options of the "Onceki Rejim" selectbox (line 341).
prev_regime_options == {"", "ON", "NEUTRAL", "OFF", "OFF-KILL"}

\* The range of the "Bekleyen Gecis Haftasi" number input (lines 351-352).
WeeksMin == 0

WeeksMax == 5

\* The range of the "Faiz Skoru" slider (line 387).
FaizMin == 0

FaizMax == 100

\* The values the input widgets start with (lines 360-387).
DefaultObs ==
  [usdtry_wchg |-> 80, cds_level |-> 204, cds_wdelta |-> 0, vix_last |-> 175,
   sp500_wchg |-> 100, xu100_wchg |-> 200, xbank_wchg |-> 250,
   volume_ratio |-> 100, faiz_score |-> 60]

EventCategories == {"Secilmedi", "A", "B", "C"}

\* Lines 314-323.
InitialSessionState ==
  [previous_regime |-> None, weeks_in_transition |-> 0, last_score |-> None,
   show_emergency_panel |-> FALSE, manual_override_active |-> FALSE]

\* What the widgets hold before anything is rendered: their defaults.
InitialWidgets ==
  [obs |-> DefaultObs,
   previous_regime_input |-> "", prev_regime_idx |-> "",
   weeks_pending |-> 0, weeks_value |-> 0,
   duygu_check |-> FALSE, event_category |-> "Secilmedi"]

NotRun == [ran |-> FALSE]

NotCalled == [n |-> 0]

NoHistory == [zero_start |-> FALSE, stable_on |-> FALSE]

\* -------------------------------------------------------------- SCRIPT RUN

\* Lines 342-355.  The selectbox and the number input carry no key: a render
\* whose default (index, value) differs from that of the previous render makes
\* a new widget, which holds its default; otherwise the widget keeps the value
\* the operator gave it.
RenderPrevWidgets(ss, w) ==
  LET idx == IF ss.previous_regime \in prev_regime_options
               THEN ss.previous_regime ELSE ""
      val == ss.weeks_in_transition
  IN  [w EXCEPT
         !.previous_regime_input =
            IF idx # w.prev_regime_idx THEN idx ELSE @,
         !.prev_regime_idx = idx,
         !.weeks_pending = IF val # w.weeks_value THEN val ELSE @,
         !.weeks_value = val]

\* Lines 472-497: the panel's keyed widgets live while the panel is rendered;
\* a run that does not render them drops their values.
RenderPanelWidgets(ss, w) ==
  IF ss.show_emergency_panel THEN w
  ELSE [w EXCEPT !.duygu_check = FALSE, !.event_category = "Secilmedi"]

\* Lines 452-454.
WriteSessionState(ss, d) ==
  [ss EXCEPT !.previous_regime = d.regime,
             !.weeks_in_transition = d.new_weeks,
             !.last_score = d.total]

\* One pass of the script, top to bottom, up to the panel's buttons.
\* emergency_clicked: the run was started by the sidebar button of line 334.
ScriptPass(ss, w, emergency_clicked) ==
  LET ss1 == IF emergency_clicked
               THEN [ss EXCEPT !.show_emergency_panel = ~@] ELSE ss
      w1  == RenderPrevWidgets(ss1, w)
      d   == Calculations(w1.obs, w1.previous_regime_input, w1.weeks_pending,
                          ss1.manual_override_active)
      ss2 == WriteSessionState(ss1, d)
      w2  == RenderPanelWidgets(ss2, w1)
  IN  [ss |-> ss2, w |-> w2, d |-> d]

\* Lines 527-529, 541-543, 602-604: a panel button sets the flag and calls
\* st.rerun(), which runs the script again from the top.
ScriptPassThenFlag(ss, w, flag) ==
  LET p == ScriptPass(ss, w, FALSE)
  IN  ScriptPass([p.ss EXCEPT !.manual_override_active = flag], p.w, FALSE)

Commit(p) ==
  /\ session_state' = p.ss
  /\ widgets' = p.w
  /\ dec' = p.d
  /\ UNCHANGED <<call, hist>>

\* ------------------------------------------------------------ INPUT VALUES

ObsFields ==
  {"usdtry_wchg", "cds_level", "cds_wdelta", "vix_last", "sp500_wchg",
   "xu100_wchg", "xbank_wchg", "volume_ratio", "faiz_score"}

\* The values the operator types in the dashboard session (Spec): the
\* default of each input and a few values that move the score and the gates.
SessionValues ==
  [f \in ObsFields |->
     CASE f = "usdtry_wchg"  -> {80, 350, 600}
       [] f = "cds_level"    -> {204, 650}
       [] f = "volume_ratio" -> {100, 40}
       [] OTHER              -> {DefaultObs[f]}]

\* The values of a single evaluated cycle (SpecCycle): both sides of every
\* threshold the source compares the input with.
CycleValues ==
  [f \in ObsFields |->
     CASE f = "usdtry_wchg"  ->
            {-1001, -600, -201, -200, -50, -49, 0, 49, 50, 80, 149, 150,
             299, 300, 301, 499, 500, 501, 600, 1000, 1001}
       [] f = "cds_level"    ->
            {49, 50, 204, 299, 300, 399, 400, 499, 500, 599, 600, 699, 700,
             1500, 1501}
       [] f = "cds_wdelta"   ->
            {-151, -150, -76, -75, -31, -30, 0, 50, 51, 75, 76, 99, 100,
             150, 151}
       [] f = "vix_last"     ->
            {79, 80, 175, 199, 200, 249, 250, 299, 300, 301, 349, 350, 351,
             600, 601}
       [] f = "sp500_wchg"   ->
            {-301, -300, -299, -201, -200, -101, -100, 100, 200, 201}
       [] f = "xu100_wchg"   -> {-101, -100, -99, 200}
       [] f = "xbank_wchg"   -> {-501, -500, -499, 250}
       [] f = "volume_ratio" -> {49, 50, 79, 80, 100, 119, 120}
       [] f = "faiz_score"   -> {FaizMin, 1, 30, 60, 99, FaizMax}]

\* How many input widgets of a cycle differ from their defaults.
MaxVaried == 2

RECURSIVE Vary(_, _)
Vary(S, k) ==
  IF k = 0 THEN S
  ELSE Vary(S \cup {[o EXCEPT ![f] = v] :
                      o \in S, <<f, v>> \in
                        UNION {{<<g, x>> : x \in CycleValues[g]} : g \in ObsFields}},
            k - 1)

\* The defaults, and the defaults with both soft gates failing.
SoftVetoObs == [DefaultObs EXCEPT !.xbank_wchg = -500, !.volume_ratio = 49]

CycleObs == Vary({DefaultObs, SoftVetoObs}, MaxVaried)

\* The pending weeks of a single evaluated cycle: none, one, the most.
CycleWeeks == {WeeksMin, 1, WeeksMax}

\* The scores and the pending counts get_regime_with_hysteresis is called
\* with on its own.
MaxScore == 100

MaxWeeks == 3

\* ----------------------------------------------------------------- ACTIONS

\* The first run of the script, when the page is opened.
PageLoad ==
  /\ ~dec.ran
  /\ Commit(ScriptPass(session_state, widgets, FALSE))

\* The operator changes one input widget; the script runs.
SetInput(f, v) ==
  /\ dec.ran
  /\ v # widgets.obs[f]
  /\ Commit(ScriptPass(session_state, [widgets EXCEPT !.obs[f] = v], FALSE))

\* The operator picks the previous regime in the selectbox; the script runs.
SelectPreviousRegime(v) ==
  /\ dec.ran
  /\ v # widgets.previous_regime_input
  /\ Commit(ScriptPass(session_state,
                       [widgets EXCEPT !.previous_regime_input = v], FALSE))

\* The operator enters the pending weeks; the script runs.
SetWeeksPending(v) ==
  /\ dec.ran
  /\ v # widgets.weeks_pending
  /\ Commit(ScriptPass(session_state,
                       [widgets EXCEPT !.weeks_pending = v], FALSE))

\* Line 334: the sidebar button toggles the panel in the run it starts.
ToggleEmergencyPanel ==
  /\ dec.ran
  /\ Commit(ScriptPass(session_state, widgets, TRUE))

\* Lines 497 and 490: the panel's checkbox and radio; the script runs.
SetDuyguCheck(b) ==
  /\ dec.ran
  /\ session_state.show_emergency_panel
  /\ b # widgets.duygu_check
  /\ Commit(ScriptPass(session_state,
                       [widgets EXCEPT !.duygu_check = b], FALSE))

SelectEventCategory(c) ==
  /\ dec.ran
  /\ session_state.show_emergency_panel
  /\ c # widgets.event_category
  /\ Commit(ScriptPass(session_state,
                       [widgets EXCEPT !.event_category = c], FALSE))

\* Lines 487, 501, 508: a panel widget no calculation reads; the script runs.
TouchPanelWidget ==
  /\ dec.ran
  /\ session_state.show_emergency_panel
  /\ Commit(ScriptPass(session_state, widgets, FALSE))

\* Lines 518-543: the button is rendered under the duygu check or category A.
ActivateManualKill ==
  /\ dec.ran
  /\ session_state.show_emergency_panel
  /\ widgets.duygu_check \/ widgets.event_category = "A"
  /\ Commit(ScriptPassThenFlag(session_state, widgets, TRUE))

\* Lines 599-604.
ClearManualKill ==
  /\ dec.ran
  /\ session_state.show_emergency_panel
  /\ session_state.manual_override_active
  /\ Commit(ScriptPassThenFlag(session_state, widgets, FALSE))

Init ==
  /\ session_state = InitialSessionState
  /\ widgets = InitialWidgets
  /\ dec = NotRun
  /\ call = NotCalled
  /\ hist = NoHistory

Next ==
  \/ PageLoad
  \/ \E f \in ObsFields : \E v \in SessionValues[f] : SetInput(f, v)
  \/ \E v \in prev_regime_options : SelectPreviousRegime(v)
  \/ \E v \in WeeksMin..WeeksMax : SetWeeksPending(v)
  \/ ToggleEmergencyPanel
  \/ \E b \in BOOLEAN : SetDuyguCheck(b)
  \/ \E c \in EventCategories : SelectEventCategory(c)
  \/ TouchPanelWidget
  \/ ActivateManualKill
  \/ ClearManualKill

Spec == Init /\ [][Next]_vars

\* ------------------------------------------------- ONE CYCLE, ANY INPUTS

\* A state the script can start a run in: the operator has set up to
\* MaxVaried inputs, the previous regime and the pending weeks, and the
\* override flag is in either position.
InitCycle ==
  /\ \E o \in CycleObs, p \in prev_regime_options,
        k \in CycleWeeks, m \in BOOLEAN :
       /\ widgets = [InitialWidgets EXCEPT
                       !.obs = o, !.previous_regime_input = p,
                       !.prev_regime_idx = p, !.weeks_pending = k]
       /\ session_state = [InitialSessionState EXCEPT
                             !.previous_regime = IF p = "" THEN None ELSE p,
                             !.manual_override_active = m]
  /\ dec = NotRun
  /\ call = NotCalled
  /\ hist = NoHistory

RunCycle ==
  /\ ~dec.ran
  /\ Commit(ScriptPass(session_state, widgets, FALSE))

SpecCycle == InitCycle /\ [][RunCycle]_vars

\* ------------------------------ get_regime_with_hysteresis, state threaded

CallRegime(n, score, previous_regime, weeks, hard_kill) ==
  LET r == get_regime_with_hysteresis(score, previous_regime, weeks, hard_kill)
  IN  [n |-> n, current_score |-> score, previous_regime |-> previous_regime,
       weeks_in_transition |-> weeks, hard_kill |-> hard_kill,
       regime |-> r.regime, new_weeks |-> r.new_weeks]

InitRegime ==
  /\ session_state = InitialSessionState
  /\ widgets = InitialWidgets
  /\ dec = NotRun
  /\ hist = NoHistory
  /\ \E p \in Regimes \cup {None, ""}, k \in 0..MaxWeeks :
       call = [n |-> 0, previous_regime |-> p, weeks_in_transition |-> k]

\* The first cycle: the prior state is the one given.
\* hist.zero_start: the run started with no pending week.
\* hist.stable_on: it started in ON with no pending week and has seen since
\* no hard kill and no two consecutive scores below 57.
FirstCall(score, hard_kill) ==
  /\ call.n = 0
  /\ call' = CallRegime(1, score, call.previous_regime,
                        call.weeks_in_transition, hard_kill)
  /\ hist' = [zero_start |-> call.weeks_in_transition = 0,
              stable_on  |-> /\ call.previous_regime = "ON"
                             /\ call.weeks_in_transition = 0
                             /\ ~hard_kill]
  /\ UNCHANGED <<session_state, widgets, dec>>

\* Lines 445-454 and 859: the next cycle is given what this one returned.
ThreadedCall(score, hard_kill) ==
  /\ call.n >= 1
  /\ call' = CallRegime(2, score, call.regime, call.new_weeks, hard_kill)
  /\ hist' = [hist EXCEPT
                !.stable_on = /\ @
                              /\ ~hard_kill
                              /\ ~(call.current_score < 57 /\ score < 57)]
  /\ UNCHANGED <<session_state, widgets, dec>>

NextRegime ==
  \/ \E s \in 0..MaxScore, hk \in BOOLEAN : FirstCall(s, hk)
  \/ \E s \in 0..MaxScore, hk \in BOOLEAN : ThreadedCall(s, hk)

SpecRegime == InitRegime /\ [][NextRegime]_vars

\* --------------------------------- THREADED CYCLES UNDER A CONSTANT SCORE

\* The cycles a run under a constant score is followed for.
MaxCycles == 6

\* hist.score: the score of every cycle; hist.start: the regime the run
\* starts from; hist.regimes, hist.pendings: what the cycles returned.
InitConstant ==
  /\ session_state = InitialSessionState
  /\ widgets = InitialWidgets
  /\ dec = NotRun
  /\ \E p \in Regimes \cup {None, ""}, k \in 0..MaxWeeks, s \in 0..MaxScore :
       /\ call = [n |-> 0, previous_regime |-> p, weeks_in_transition |-> k]
       /\ hist = [score |-> s, start |-> p, regimes |-> <<>>,
                  pendings |-> <<>>]

\* Lines 445-454 and 859: the cycle is given what the one before returned,
\* the score is the same, no hard kill.
ConstantCycle ==
  /\ call.n < MaxCycles
  /\ call' = CallRegime(call.n + 1, hist.score,
                        IF call.n = 0 THEN call.previous_regime
                                      ELSE call.regime,
                        IF call.n = 0 THEN call.weeks_in_transition
                                      ELSE call.new_weeks,
                        FALSE)
  /\ hist' = [hist EXCEPT !.regimes = Append(@, call'.regime),
                          !.pendings = Append(@, call'.new_weeks)]
  /\ UNCHANGED <<session_state, widgets, dec>>

SpecConstant == InitConstant /\ [][ConstantCycle]_vars

\* ------------------------------------------- THE AGGREGATION ON ITS OWN

\* The sub-scores lines 437-443 are evaluated on: tens for the four table
\* scorers (the tables of lines 250-308 hold nothing else; 0 is included
\* for the liquidity score as well) and every position of the rate slider.
\* On these the float sum rounds as the exact sum does.
TableScores == {10 * i : i \in 0..10}

BandScores == {0, 10, 40, 70, 100}

InitTotal ==
  /\ session_state = InitialSessionState
  /\ widgets = InitialWidgets
  /\ dec = NotRun
  /\ hist = NoHistory
  /\ \E d \in BandScores, c \in TableScores, g \in TableScores,
        f \in FaizMin..FaizMax, l \in BandScores :
       call = [n |-> 0,
               scores |-> [doviz |-> d, cds |-> c, global |-> g,
                           faiz |-> f, likidite |-> l]]

Aggregate ==
  /\ call.n = 0
  /\ call' = [n |-> 1, scores |-> call.scores, total |-> Total(call.scores)]
  /\ UNCHANGED <<session_state, widgets, dec, hist>>

SpecTotal == InitTotal /\ [][Aggregate]_vars

\* ------------------------------------------- THE SCORERS ON TWO INPUTS

\* How many inputs of the first observation differ from the defaults.
PairVaried == 1

\* The values of the two evaluations: those of a cycle, and the negative
\* side of every threshold of score_doviz.
PairValues ==
  [CycleValues EXCEPT
     !["usdtry_wchg"] = @ \cup {-500, -499, -300, -299, -150, -149}]

\* The scorers and the aggregation evaluated on an observation and on the
\* same observation with one input replaced.
InitPair ==
  /\ session_state = InitialSessionState
  /\ widgets = InitialWidgets
  /\ dec = NotRun
  /\ hist = NoHistory
  /\ \E o \in Vary({DefaultObs}, PairVaried), f \in ObsFields :
       \E v \in PairValues[f] \ {o[f]} :
         call = [n |-> 0, obs |-> o, field |-> f, value |-> v]

ScorePair ==
  /\ call.n = 0
  /\ LET o2 == [call.obs EXCEPT ![call.field] = call.value]
     IN  call' = [n |-> 1, obs |-> call.obs, field |-> call.field,
                  value |-> call.value,
                  scores |-> Scores(call.obs),
                  total |-> Total(Scores(call.obs)),
                  scores2 |-> Scores(o2),
                  total2 |-> Total(Scores(o2))]
  /\ UNCHANGED <<session_state, widgets, dec, hist>>

SpecPair == InitPair /\ [][ScorePair]_vars

\* ------------------------------------------------------------------ CLAIMS

\* C1 (SpecCycle).  Hard-kill dominance: in a cycle where K1, K2 or K3 is
\* false the regime computed and stored is OFF-KILL and the pending weeks
\* returned and stored are 0, whatever the previous regime, the pending
\* weeks entered and the total score are.
C1_HardKillDominance ==
  (dec.ran /\ (~dec.checks.K1 \/ ~dec.checks.K2 \/ ~dec.checks.K3))
    => /\ dec.hard_kill
       /\ dec.regime = "OFF-KILL"
       /\ dec.new_weeks = 0
       /\ session_state.previous_regime = "OFF-KILL"
       /\ session_state.weeks_in_transition = 0

\* A first evaluation (no previous regime) with a score of 60 or more and
\* pending weeks entered, killed by K2 alone.
C1_Witness ==
  /\ dec.ran
  /\ ~dec.override
  /\ dec.checks.K1 /\ ~dec.checks.K2 /\ dec.checks.K3
  /\ dec.previous_regime_input = ""
  /\ dec.weeks_pending = 1
  /\ dec.total >= 60
  /\ dec.regime = "OFF-KILL"

\* C2 (Spec).  Manual override latch: while manual_override_active is set
\* every script run ends with hard_kill true and regime OFF-KILL, whatever
\* the gates and the score are, and the only step that takes the flag from
\* true to false is the operator's "Manuel Kill-Switch'i Kaldir" button.
C2_ManualOverrideLatch ==
  /\ []((dec.ran /\ session_state.manual_override_active)
          => (dec.hard_kill /\ dec.regime = "OFF-KILL"
              /\ session_state.previous_regime = "OFF-KILL"))
  /\ [][(session_state.manual_override_active
           /\ ~session_state.manual_override_active') => ClearManualKill]_vars

\* The override is set, the three hard gates pass and the score is 60 or
\* more, and the regime is OFF-KILL.
C2_Witness ==
  /\ dec.ran
  /\ session_state.manual_override_active
  /\ dec.checks.K1 /\ dec.checks.K2 /\ dec.checks.K3
  /\ dec.total >= 60
  /\ dec.regime = "OFF-KILL"

\* The move condition of a regime, as the hysteresis table states it.
MoveCondition(r, score) ==
  \/ r = "ON" /\ score < 57
  \/ r = "NEUTRAL" /\ (score > 63 \/ score < 37)
  \/ r = "OFF" /\ score > 43

\* The condition of the table's row from regime r to regime t.
ConditionToward(r, t, score) ==
  \/ r = "ON" /\ t = "NEUTRAL" /\ score < 57
  \/ r = "NEUTRAL" /\ t = "ON" /\ score > 63
  \/ r = "NEUTRAL" /\ t = "OFF" /\ score < 37
  \/ r = "OFF" /\ t = "NEUTRAL" /\ score > 43

C4_HysteresisStability ==
  (call.n >= 1 /\ hist.stable_on)
    => /\ call.regime = "ON"
       /\ call.new_weeks = IF call.current_score < 57 THEN 1 ELSE 0

\* A cycle at 58 that follows a cycle below 57: ON, the pending week reset.
C4_Witness ==
  /\ call.n = 2
  /\ hist.stable_on
  /\ call.previous_regime = "ON"
  /\ call.weeks_in_transition = 1
  /\ call.current_score = 58
  /\ call.regime = "ON"
  /\ call.new_weeks = 0

\* C5 (SpecRegime).  Confirmation window: in a run that starts with no
\* pending week, the state threaded, a cycle without hard kill that changes
\* the regime from ON, NEUTRAL or OFF to a target does so only if the
\* condition toward that target held in this cycle and, from the same
\* regime and without hard kill, in the cycle before.
C5_ConfirmationWindow ==
  /\ [](/\ call.n = 1
        /\ hist.zero_start
        /\ ~call.hard_kill
        /\ call.previous_regime \in {"ON", "NEUTRAL", "OFF"}
        => call.regime = call.previous_regime)
  /\ [][(/\ call.n >= 1
         /\ call'.n = 2
         /\ hist'.zero_start
         /\ ~call'.hard_kill
         /\ call'.previous_regime \in {"ON", "NEUTRAL", "OFF"}
         /\ call'.regime # call'.previous_regime)
        => (/\ ConditionToward(call'.previous_regime, call'.regime,
                               call'.current_score)
            /\ ~call.hard_kill
            /\ call.previous_regime = call'.previous_regime
            /\ ConditionToward(call.previous_regime, call'.regime,
                               call.current_score))]_vars

\* C6 (SpecRegime).  Immediate rule: with no hard kill and the previous
\* regime OFF-KILL or absent (None or empty), the regime is ON for a score
\* of 60 or more, NEUTRAL for 40 to 59, OFF below 40, and the pending weeks
\* returned are 0, whatever pending weeks came in.
C6_ImmediateRule ==
  (/\ call.n >= 1
   /\ ~call.hard_kill
   /\ call.previous_regime \in {"OFF-KILL", None, ""})
    => /\ call.regime = IF call.current_score >= 60 THEN "ON"
                        ELSE IF call.current_score >= 40 THEN "NEUTRAL"
                        ELSE "OFF"
       /\ call.new_weeks = 0

\* Recovery from OFF-KILL at a score of exactly 60 with pending weeks
\* coming in: ON at once.
C6_Witness ==
  /\ call.n >= 1
  /\ ~call.hard_kill
  /\ call.previous_regime = "OFF-KILL"
  /\ call.weeks_in_transition >= 1
  /\ call.current_score = 60
  /\ call.regime = "ON"
  /\ call.new_weeks = 0

\* C7 (SpecRegime).  Stays confirmed: with no hard kill, a previous regime
\* ON, NEUTRAL or OFF whose move condition is not met is returned unchanged
\* with pending 0, whatever pending weeks came in.
C7_StaysConfirmed ==
  (/\ call.n >= 1
   /\ ~call.hard_kill
   /\ call.previous_regime \in {"ON", "NEUTRAL", "OFF"}
   /\ ~MoveCondition(call.previous_regime, call.current_score))
    => /\ call.regime = call.previous_regime
       /\ call.new_weeks = 0

\* NEUTRAL at a score of exactly 63 with pending weeks coming in.
C7_Witness ==
  /\ call.n >= 1
  /\ ~call.hard_kill
  /\ call.previous_regime = "NEUTRAL"
  /\ call.weeks_in_transition >= 1
  /\ call.current_score = 63
  /\ call.regime = "NEUTRAL"
  /\ call.new_weeks = 0

\* C8 as stated (SpecCycle).  Kill scenario: with the currency change at
\* +6%, whatever the other inputs, K1 fails, hard_kill is true, the regime
\* is OFF-KILL and the adjusted budget is (2 positions, 0.5R).
C8_KillScenarioAsStated ==
  (dec.ran /\ dec.obs.usdtry_wchg = 600)
    => /\ ~dec.checks.K1
       /\ dec.hard_kill
       /\ dec.regime = "OFF-KILL"
       /\ dec.adj_pos = 2
       /\ dec.adj_risk = 5

\* C8 amended (SpecCycle).  With the currency change at +6%, whatever the
\* other inputs, K1 fails, hard_kill is true, the regime is OFF-KILL and the
\* adjusted positions are 2; the adjusted risk is 0.5R when both soft gates
\* pass, 0.4R when one of K4, K5 fails and 0.3R when both fail.
C8_KillScenario ==
  (dec.ran /\ dec.obs.usdtry_wchg = 600)
    => /\ ~dec.checks.K1
       /\ dec.hard_kill
       /\ dec.regime = "OFF-KILL"
       /\ dec.adj_pos = 2
       /\ dec.adj_risk = IF dec.checks.K4 /\ dec.checks.K5 THEN 5
                         ELSE IF dec.checks.K4 \/ dec.checks.K5 THEN 4
                         ELSE 3

\* The currency at +6% with both soft gates failing: OFF-KILL, (2, 0.3R).
C8_Witness ==
  /\ dec.ran
  /\ dec.obs.usdtry_wchg = 600
  /\ ~dec.override
  /\ ~dec.checks.K4 /\ ~dec.checks.K5
  /\ dec.regime = "OFF-KILL"
  /\ dec.adj_pos = 2
  /\ dec.adj_risk = 3

\* The scenario of C9: the inputs the widgets start with, the previous
\* regime ON, no pending week, no manual override.
C9_ScenarioInputs ==
  /\ dec.ran
  /\ dec.obs = DefaultObs
  /\ dec.previous_regime_input = "ON"
  /\ dec.weeks_pending = 0
  /\ ~dec.override

\* C9 as stated (SpecCycle).  In the scenario all five gates pass, the
\* sub-scores are FX 100, Credit 70, Global 100, Rate 60, Liquidity 70, the
\* total is 85, the regime stays ON and the adjusted budget is (12, 2.5R).
C9_ScenarioAsStated ==
  C9_ScenarioInputs
    => /\ \A k \in {"K1", "K2", "K3", "K4", "K5"} : dec.checks[k]
       /\ dec.scores = [doviz |-> 100, cds |-> 70, global |-> 100,
                        faiz |-> 60, likidite |-> 70]
       /\ dec.total = 85
       /\ dec.regime = "ON"
       /\ dec.adj_pos = 12 /\ dec.adj_risk = 25

\* C9 amended (SpecCycle).  In the scenario all five gates pass, the
\* sub-scores are FX 70, Credit 100, Global 100, Rate 60, Liquidity 70, the
\* total is 84, the regime stays ON with pending 0 and the adjusted budget
\* is the base (12, 2.5R).
C9_Scenario ==
  C9_ScenarioInputs
    => /\ \A k \in {"K1", "K2", "K3", "K4", "K5"} : dec.checks[k]
       /\ ~dec.hard_kill
       /\ dec.scores = [doviz |-> 70, cds |-> 100, global |-> 100,
                        faiz |-> 60, likidite |-> 70]
       /\ dec.total = 84
       /\ dec.regime = "ON" /\ dec.new_weeks = 0
       /\ dec.adj_pos = 12 /\ dec.adj_risk = 25
       /\ dec.adj_pos = dec.base_pos /\ dec.adj_risk = dec.base_risk

C9_Witness ==
  /\ C9_ScenarioInputs
  /\ dec.scores.doviz = 70
  /\ dec.total = 84
  /\ session_state.previous_regime = "ON"

\* The inputs of dec with other K4 inputs, and with another volume ratio.
WithIndexChanges(xu, xb) ==
  [dec.obs EXCEPT !.xu100_wchg = xu, !.xbank_wchg = xb]

WithVolumeRatio(v) == [dec.obs EXCEPT !.volume_ratio = v]

\* The cycle of dec run again on the inputs o.
Rerun(o) ==
  Calculations(o, dec.previous_regime_input, dec.weeks_pending, dec.override)

RegimeAndPending(d) == <<d.regime, d.new_weeks>>

\* C10 as stated (SpecCycle).  Soft veto changes the budget only: a cycle
\* that differs from this one only in the K4 inputs, or only in the volume
\* ratio, so that the gate fails in one and passes in the other, returns
\* the same regime and the same pending weeks.
C10_SoftVetoBudgetOnlyAsStated ==
  dec.ran =>
    /\ \A xu \in CycleValues["xu100_wchg"], xb \in CycleValues["xbank_wchg"] :
         Checks(WithIndexChanges(xu, xb)).K4 # dec.checks.K4
           => RegimeAndPending(Rerun(WithIndexChanges(xu, xb)))
                = RegimeAndPending(dec)
    /\ \A v \in CycleValues["volume_ratio"] :
         Checks(WithVolumeRatio(v)).K5 # dec.checks.K5
           => RegimeAndPending(Rerun(WithVolumeRatio(v)))
                = RegimeAndPending(dec)

\* What a cycle decides apart from the budget and the soft-veto reasons.
ScoresAndRegime(d) ==
  <<d.scores, d.total, d.hard_kill, d.regime, d.new_weeks>>

\* The two cycles differ in the liquidity score alone: hard_kill and the
\* other sub-scores agree, the lower liquidity score is 10, the totals are
\* 1 to 5 points apart, and under hard_kill regime and pending weeks agree.
DiffersByLiquidity(d, e) ==
  /\ d.hard_kill = e.hard_kill
  /\ [d.scores EXCEPT !.likidite = 0] = [e.scores EXCEPT !.likidite = 0]
  /\ IF d.checks.K5
       THEN e.scores.likidite = 10 /\ d.total - e.total \in 1..5
       ELSE d.scores.likidite = 10 /\ e.total - d.total \in 1..5
  /\ d.hard_kill => RegimeAndPending(d) = RegimeAndPending(e)

\* C10 amended (SpecCycle).  A cycle that differs from this one only in the
\* K4 inputs, K4 failing in one and passing in the other, has the same
\* scores, total, hard_kill, regime and pending weeks.  A cycle that differs
\* only in the volume ratio, K5 failing in one and passing in the other,
\* has the same hard_kill and the other four sub-scores, and the total of
\* the failing one is lower by 1 to 5 points (the liquidity score is 10
\* against 40, 70 or 100); its regime and pending weeks are those of the
\* other cycle whenever hard_kill is true.
C10_SoftVetoBudgetOnly ==
  dec.ran =>
    /\ \A xu \in CycleValues["xu100_wchg"], xb \in CycleValues["xbank_wchg"] :
         Checks(WithIndexChanges(xu, xb)).K4 # dec.checks.K4
           => ScoresAndRegime(Rerun(WithIndexChanges(xu, xb)))
                = ScoresAndRegime(dec)
    /\ \A v \in CycleValues["volume_ratio"] :
         Checks(WithVolumeRatio(v)).K5 # dec.checks.K5
           => DiffersByLiquidity(Rerun(WithVolumeRatio(v)), dec)

\* K4 fails alone with no kill: the regime is ON as it is with K4 passing,
\* and the budget is cut to 9 positions.
C10_Witness ==
  /\ dec.ran
  /\ ~dec.checks.K4 /\ dec.checks.K5
  /\ ~dec.hard_kill
  /\ dec.previous_regime_input = "ON"
  /\ dec.regime = "ON"
  /\ dec.adj_pos = 9
  /\ Rerun(WithIndexChanges(200, 250)).regime = "ON"
  /\ Rerun(WithIndexChanges(200, 250)).adj_pos = 12

\* C11: budget floor.  After every cycle, whatever the regime and the soft
\* reduction, the adjusted positions are the base positions when the soft
\* reduction is 0 and max(2, floor(base positions x (1 - soft reduction)))
\* otherwise; they lie between 2 and the base positions, and the adjusted
\* risk does not exceed the base risk of the regime.
C11_BudgetFloor ==
  dec.ran =>
    /\ dec.base_pos = BASE_BUDGETS[dec.regime].pos
    /\ dec.base_risk = BASE_BUDGETS[dec.regime].risk
    /\ dec.soft_reduction = 0 => dec.adj_pos = dec.base_pos
    /\ dec.soft_reduction > 0 =>
         \E fl \in 0..dec.base_pos :
           /\ fl * 100 <= dec.base_pos * (100 - dec.soft_reduction)
           /\ (fl + 1) * 100 > dec.base_pos * (100 - dec.soft_reduction)
           /\ dec.adj_pos = IF fl < 2 THEN 2 ELSE fl
    /\ 2 <= dec.adj_pos
    /\ dec.adj_pos <= dec.base_pos
    /\ dec.adj_risk <= dec.base_risk

\* The floor binds: OFF-KILL with both soft gates failing, floor(2 x 0.6) = 1.
C11_Witness ==
  /\ dec.ran
  /\ dec.regime = "OFF-KILL"
  /\ dec.soft_reduction = 40
  /\ dec.base_pos = 2
  /\ dec.adj_pos = 2

\* C12: after every cycle the soft reduction is 0.25 if K4 fails plus 0.15 if
\* K5 fails, where K4 fails exactly when the financial-sector change is
\* <= -5% and the broad index change is > -1%, and K5 fails exactly when the
\* volume ratio is < 0.5; it lies in [0, 0.5] and the list of soft-veto
\* reasons has one entry per failing soft gate.
C12_SoftReduction ==
  dec.ran =>
    LET k4_fails == dec.obs.xbank_wchg <= -500 /\ dec.obs.xu100_wchg > -100
        k5_fails == dec.obs.volume_ratio < 50
    IN  /\ dec.checks.K4 = ~k4_fails
        /\ dec.checks.K5 = ~k5_fails
        /\ dec.soft_reduction
             = (IF k4_fails THEN 25 ELSE 0) + (IF k5_fails THEN 15 ELSE 0)
        /\ dec.soft_reduction \in 0..50
        /\ dec.soft_reasons
             = (IF k4_fails THEN <<"K4">> ELSE <<>>)
                 \o (IF k5_fails THEN <<"K5">> ELSE <<>>)

\* Both soft gates fail, K4 at its closed edge (-5%) and K5 just under 0.5.
C12_Witness ==
  /\ dec.ran
  /\ dec.obs.xbank_wchg = -500
  /\ dec.obs.xu100_wchg = -99
  /\ dec.obs.volume_ratio = 49
  /\ dec.soft_reduction = 40
  /\ Len(dec.soft_reasons) = 2

\* C13: after every cycle hard_kill is true exactly when the currency change
\* is >= +5% (a negative change of any size does not fail K1), or the spread
\* level is >= 700bp, or the weekly spread delta is >= 100bp, or the
\* volatility index is > 35 together with a global-equity change <= -3%, or
\* the manual override flag is set.
C13_HardKillExactly ==
  dec.ran =>
    LET o == dec.obs
    IN  /\ dec.checks.K1 = ~(o.usdtry_wchg >= 500)
        /\ dec.checks.K2 = ~(o.cds_level >= 700 \/ o.cds_wdelta >= 100)
        /\ dec.checks.K3 = ~(o.vix_last > 350 /\ o.sp500_wchg <= -300)
        /\ dec.override = session_state.manual_override_active
        /\ dec.hard_kill
             = \/ o.usdtry_wchg >= 500
               \/ o.cds_level >= 700
               \/ o.cds_wdelta >= 100
               \/ (o.vix_last > 350 /\ o.sp500_wchg <= -300)
               \/ session_state.manual_override_active

\* A currency change of -6% and a volatility index above 35 with global
\* equity up: no hard gate fails, no hard kill.
C13_Witness ==
  /\ dec.ran
  /\ dec.obs.usdtry_wchg = -600
  /\ dec.obs.vix_last = 351
  /\ dec.obs.sp500_wchg = 100
  /\ ~session_state.manual_override_active
  /\ ~dec.hard_kill

\* An input that lies outside the limits validate_data treats as errors.
OutOfLimits(o) ==
  \/ o.usdtry_wchg > 1000 \/ o.usdtry_wchg < -1000
  \/ o.cds_level < 50 \/ o.cds_level > 1500
  \/ o.cds_wdelta > 150 \/ o.cds_wdelta < -150
  \/ o.vix_last < 80 \/ o.vix_last > 600

\* One of the three cross-field inconsistencies validate_data warns about.
CrossFieldInconsistency(o) ==
  \/ (o.cds_wdelta < -30 /\ o.usdtry_wchg > 300)
  \/ (o.cds_wdelta > 50 /\ o.usdtry_wchg < -200)
  \/ (o.vix_last > 300 /\ o.sp500_wchg > 200)

\* C14: validation grading.  After every cycle the confidence is LOW exactly
\* when the error list is non-empty, MEDIUM exactly when there is no error
\* and at least one warning, HIGH otherwise; is_valid is false exactly when
\* the error list is non-empty; an observation within the limits is valid
\* whatever warnings it draws, and a cross-field inconsistency draws a
\* warning.
C14_ValidationGrading ==
  dec.ran =>
    LET v == dec.validation
    IN  /\ (v.confidence = "LOW") = (v.errors # <<>>)
        /\ (v.confidence = "MEDIUM") = (v.errors = <<>> /\ v.warnings # <<>>)
        /\ (v.confidence = "HIGH") = (v.errors = <<>> /\ v.warnings = <<>>)
        /\ v.is_valid = (v.errors = <<>>)
        /\ (v.errors # <<>>) = OutOfLimits(dec.obs)
        /\ CrossFieldInconsistency(dec.obs) => v.warnings # <<>>
        /\ ~OutOfLimits(dec.obs) => v.is_valid

\* A cross-field inconsistency and a range warning, no error: valid, MEDIUM.
C14_Witness ==
  /\ dec.ran
  /\ dec.obs.cds_wdelta = -76
  /\ dec.obs.usdtry_wchg = 301
  /\ Len(dec.validation.warnings) = 2
  /\ dec.validation.errors = <<>>
  /\ dec.validation.is_valid
  /\ dec.validation.confidence = "MEDIUM"

\* C15: validation never halts or alters the decision.  Every cycle, also one
\* whose observation has validation errors, runs to the end and produces a
\* regime, a total score in 0..100 and a budget, and these are what the
\* gates, the scorers, the regime function and the budget rule give for the
\* observation and the prior state alone.
C15_ValidationDoesNotDecide ==
  dec.ran =>
       LET checks == Checks(dec.obs)
           kill   == HardKill(checks, dec.override)
           total  == Total(Scores(dec.obs))
           r == get_regime_with_hysteresis(
                  total,
                  IF dec.previous_regime_input # ""
                    THEN dec.previous_regime_input ELSE None,
                  dec.weeks_pending, kill)
           adj == AdjustedBudget(r.regime, SoftReduction(checks))
       IN  /\ dec.regime \in Regimes
           /\ dec.total \in 0..100
           /\ dec.hard_kill = kill
           /\ dec.total = total
           /\ <<dec.regime, dec.new_weeks>> = <<r.regime, r.new_weeks>>
           /\ <<dec.adj_pos, dec.adj_risk, dec.adj_entry>>
                = <<adj.pos, adj.risk, adj.entry>>
           /\ session_state.previous_regime = dec.regime
           /\ session_state.last_score = dec.total

\* A spread level under the minimum is an error; no gate fails and the score
\* keeps the regime ON with the full budget.
C15_Witness ==
  /\ dec.ran
  /\ dec.obs.cds_level = 49
  /\ ~dec.validation.is_valid
  /\ dec.validation.confidence = "LOW"
  /\ ~dec.hard_kill
  /\ dec.regime = "ON"
  /\ dec.adj_pos = 12

\* C16: after every cycle each of the five sub-scores the total is computed
\* from is an integer in [0, 100]: the FX, credit, global and liquidity
\* scores stay in range after their penalties, and the rate-proxy score is
\* the supplied value, which clamping to [0, 100] leaves as it is.
C16_SubScoresInRange ==
  dec.ran =>
    /\ \A f \in DOMAIN dec.scores : dec.scores[f] \in 0..100
    /\ DOMAIN dec.scores = {"doviz", "cds", "global", "faiz", "likidite"}
    /\ dec.scores.faiz = dec.obs.faiz_score
    /\ dec.scores.faiz = clamp(dec.obs.faiz_score, 0, 100)

\* The spike penalty on a credit score of 10: floored at 0.
C16_Witness ==
  /\ dec.ran
  /\ dec.obs.cds_level = 699
  /\ dec.obs.cds_wdelta = 51
  /\ dec.scores.cds = 0

\* The weighted sum of the sub-scores, in hundredths.
WeightedSum(sc) ==
  30 * sc.doviz + 25 * sc.cds + 25 * sc.global + 15 * sc.faiz
    + 5 * sc.likidite

\* C17: aggregation.  The weights are 0.30, 0.25, 0.25, 0.15, 0.05 and sum to
\* 1; the total is the weighted sum of the five sub-scores rounded to a
\* nearest integer and lies in [0, 100]; it is 100 when all sub-scores are
\* 100 and 0 when all are 0.
C17_Aggregation ==
  /\ W = [doviz |-> 30, cds |-> 25, global |-> 25, faiz |-> 15,
          likidite |-> 5]
  /\ W.doviz + W.cds + W.global + W.faiz + W.likidite = 100
  /\ call.n = 1 =>
       /\ call.total \in 0..100
       /\ 100 * call.total - WeightedSum(call.scores) \in -50..50
       /\ (\A f \in DOMAIN call.scores : call.scores[f] = 100)
            => call.total = 100
       /\ (\A f \in DOMAIN call.scores : call.scores[f] = 0)
            => call.total = 0

\* All sub-scores 100, aggregated.
C17_Witness ==
  /\ call.n = 1
  /\ \A f \in DOMAIN call.scores : call.scores[f] = 100
  /\ call.total = 100

\* The replaced input is at least as adverse as the one it replaces: a larger
\* |currency change|, spread level, spread delta or volatility index, a
\* smaller global-equity change or volume ratio.
MoreAdverse ==
  LET x == call.obs[call.field]
      v == call.value
  IN  CASE call.field = "usdtry_wchg" -> Abs(v) >= Abs(x)
        [] call.field \in {"cds_level", "cds_wdelta", "vix_last"} -> v >= x
        [] call.field \in {"sp500_wchg", "volume_ratio"} -> v <= x
        [] OTHER -> FALSE

\* C18: monotonicity of the scorers.  When one adverse input grows and the
\* other inputs are fixed, no sub-score and not the total rises: the FX score
\* is non-increasing in |currency change|, the credit score in the spread
\* level and in the spread delta, the global score in the volatility index
\* and in the fall of global equity, the liquidity score in the fall of the
\* volume ratio.
C18_Monotonicity ==
  (call.n = 1 /\ "scores2" \in DOMAIN call /\ MoreAdverse) =>
    /\ \A s \in DOMAIN call.scores : call.scores2[s] <= call.scores[s]
    /\ call.total2 <= call.total

\* A spread delta over the spike threshold where the level already costs
\* points: the credit score and the total fall.
C18_Witness ==
  /\ call.n = 1
  /\ "scores2" \in DOMAIN call
  /\ call.obs.cds_level = 399
  /\ call.field = "cds_wdelta"
  /\ call.value = 51
  /\ call.scores.cds = 70
  /\ call.scores2.cds = 50
  /\ call.total2 < call.total

\* The FX score of a currency weekly change x (hundredths of a percent), by
\* the bands of the claim.
FxBand(x) ==
  LET c == IF x < 0 THEN -x ELSE x
  IN  CASE c < 50 -> 100
        [] c >= 50 /\ c < 150 -> 70
        [] c >= 150 /\ c < 300 -> 40
        [] c >= 300 /\ c < 500 -> 10
        [] c >= 500 -> 0

\* C19: boundary exactness of the FX scorer.  With c = |currency weekly
\* change| the score is 100 for c < 0.5%, 70 for 0.5% <= c < 1.5%, 40 for
\* 1.5% <= c < 3.0%, 10 for 3.0% <= c < 5.0% and 0 for c >= 5.0%: each
\* threshold belongs to the lower-scoring band and the sign does not matter.
C19_FxBoundaries ==
  (call.n = 1 /\ "scores2" \in DOMAIN call) =>
    /\ call.scores.doviz = FxBand(call.obs.usdtry_wchg)
    /\ call.field = "usdtry_wchg" =>
         /\ call.scores2.doviz = FxBand(call.value)
         /\ call.value = -call.obs.usdtry_wchg
              => call.scores2.doviz = call.scores.doviz

\* Both sides of the first threshold: 0.49% scores 100, exactly 0.5% scores 70.
C19_Witness ==
  /\ call.n = 1
  /\ "scores2" \in DOMAIN call
  /\ call.obs.usdtry_wchg = 49
  /\ call.field = "usdtry_wchg"
  /\ call.value = 50
  /\ call.scores.doviz = 100
  /\ call.scores2.doviz = 70

\* C20: operator actions that supply no new observation (toggling the
\* emergency panel, setting or clearing the manual override) leave the regime
\* and the pending weeks of the engine state unchanged and do not advance the
\* pending counter.
C20_EngineStateFrame ==
  [][(ToggleEmergencyPanel \/ ActivateManualKill \/ ClearManualKill)
       => /\ session_state'.previous_regime = session_state.previous_regime
          /\ session_state'.weeks_in_transition
               = session_state.weeks_in_transition]_vars

\* Two regimes of the ladder ON - NEUTRAL - OFF that are equal or neighbours.
SameOrAdjacent(a, b) ==
  \/ a = b
  \/ {a, b} = {"ON", "NEUTRAL"}
  \/ {a, b} = {"NEUTRAL", "OFF"}

\* C21: no level skipping.  In every cycle without hard kill whose previous
\* regime is ON, NEUTRAL or OFF the new regime is the previous one or a
\* neighbour of it, whatever the score and the incoming pending weeks (never
\* ON to OFF or OFF to ON in one cycle); and over two consecutive cycles the
\* regime goes from OFF to ON only with OFF-KILL in between.
C21_NoLevelSkipping ==
  /\ [](call.n >= 1 /\ ~call.hard_kill
          /\ call.previous_regime \in {"ON", "NEUTRAL", "OFF"}
        => /\ call.regime \in {"ON", "NEUTRAL", "OFF"}
           /\ SameOrAdjacent(call.previous_regime, call.regime))
  /\ [][(call.n >= 1 /\ call.previous_regime = "OFF" /\ call'.regime = "ON")
          => (call.regime = "OFF-KILL" /\ call.hard_kill
              /\ call'.previous_regime = "OFF-KILL")]_vars

\* ON with one pending week and a score under every threshold: the cycle
\* commits to NEUTRAL, not to OFF.
C21_Witness ==
  /\ call.n = 2
  /\ ~call.hard_kill
  /\ call.previous_regime = "ON"
  /\ call.weeks_in_transition = 1
  /\ call.current_score = 0
  /\ call.regime = "NEUTRAL"

\* C22: pending-counter invariant.  After every cycle, for any score, any
\* prior regime, any incoming pending weeks >= 0, hard kill or not, the
\* returned pending weeks are 0 or 1 (below CONFIRM_WEEKS = 2); they are
\* non-zero only when the returned regime equals the previous one and is ON,
\* NEUTRAL or OFF, and 0 whenever the regime changed or is OFF-KILL.
C22_PendingCounter ==
  call.n >= 1 =>
    /\ call.new_weeks \in 0..1
    /\ call.new_weeks < 2
    /\ call.new_weeks # 0
         => /\ call.regime = call.previous_regime
            /\ call.regime \in {"ON", "NEUTRAL", "OFF"}
    /\ (call.regime # call.previous_regime \/ call.regime = "OFF-KILL")
         => call.new_weeks = 0

\* Three weeks pending come in and the score asks for a move: the regime
\* changes and the counter is back at 0.
C22_Witness ==
  /\ call.n = 1
  /\ call.previous_regime = "OFF"
  /\ call.weeks_in_transition = MaxWeeks
  /\ call.current_score = 44
  /\ ~call.hard_kill
  /\ call.regime = "NEUTRAL"
  /\ call.new_weeks = 0

\* C23: a regime chosen by the immediate-threshold rule (no previous regime,
\* or recovery from OFF-KILL) is a fixed point of the hysteresis rule: for
\* every score, the next cycle, given the chosen regime, pending 0 and the
\* same score without hard kill, returns the same regime with pending 0.
C23_ImmediateFixedPoint ==
  (hist.start \in {None, "", "OFF-KILL"} /\ Len(hist.regimes) >= 2) =>
    /\ hist.pendings[1] = 0
    /\ hist.regimes[1]
         = (IF hist.score >= 60 THEN "ON"
            ELSE IF hist.score >= 40 THEN "NEUTRAL" ELSE "OFF")
    /\ hist.regimes[2] = hist.regimes[1]
    /\ hist.pendings[2] = 0

\* Recovery from OFF-KILL at score 59: NEUTRAL, and NEUTRAL again.
C23_Witness ==
  /\ hist.start = "OFF-KILL"
  /\ hist.score = 59
  /\ call.n = 2
  /\ call.previous_regime = "NEUTRAL"
  /\ call.weeks_in_transition = 0
  /\ hist.regimes = <<"NEUTRAL", "NEUTRAL">>
  /\ hist.pendings = <<0, 0>>

\* The regimes of a run under a constant score: the one it starts from, then
\* the ones its cycles returned.
RunRegimes == <<hist.start>> \o hist.regimes

\* The cycles of the run in which the regime changed from one of the four
\* regimes to another.
RegimeChanges ==
  {i \in 1..Len(hist.regimes) :
     /\ RunRegimes[i] \in Regimes
     /\ RunRegimes[i + 1] # RunRegimes[i]}

\* C24: convergence under a constant score.  For every score and every
\* starting state, with the score the same and no hard kill in every cycle
\* and the state threaded, the regime changes at most twice, from the 4th
\* cycle on it is one regime with pending 0 that the next cycle returns
\* again, and the run never returns to a regime it has left.
C24_Convergence ==
  "regimes" \in DOMAIN hist =>
    /\ Cardinality(RegimeChanges) <= 2
    /\ \A i \in 4..Len(hist.regimes) :
         /\ hist.regimes[i] = hist.regimes[4]
         /\ hist.pendings[i] = 0
    /\ call.n >= 4 =>
         get_regime_with_hysteresis(hist.score, call.regime, call.new_weeks,
                                    FALSE)
           = [regime |-> call.regime, new_weeks |-> 0]
    /\ \A i \in 1..Len(RunRegimes) : \A j \in i..Len(RunRegimes) :
         \A k \in j..Len(RunRegimes) :
           RunRegimes[j] # RunRegimes[i] => RunRegimes[k] # RunRegimes[i]

\* From ON with score 0: NEUTRAL in the 2nd cycle, OFF in the 4th, and OFF
\* from then on.
C24_Witness ==
  /\ "regimes" \in DOMAIN hist
  /\ hist.start = "ON"
  /\ hist.score = 0
  /\ call.n = 6
  /\ hist.regimes = <<"ON", "NEUTRAL", "NEUTRAL", "OFF", "OFF", "OFF">>
  /\ hist.pendings = <<1, 0, 1, 0, 0, 0>>

\* C25: whenever the regime of a cycle is OFF-KILL (a hard gate failed or the
\* manual override is set) the adjusted entry stance is the forbidden label
\* of OFF-KILL, whatever the soft gates say.
C25_KillStanceForbidden ==
  (dec.ran /\ dec.regime = "OFF-KILL") =>
    dec.adj_entry = BASE_BUDGETS["OFF-KILL"].entry

====
